---- MODULE Spec2Model ----
(***************************************************************************)
(* Verification model of the three scripts of the repository:              *)
(*   validate_notebooks.py  the command line notebook validator            *)
(*   notebooks/demo.py      read_uploaded_file                             *)
(*   bokeh_server.py        the server-extension load hook                 *)
(*                                                                         *)
(* Text is modelled as a sequence of lines, a line as a sequence of        *)
(* tokens (strings), so that the number of lines a print call writes is    *)
(* something the model computes.                                           *)
(***************************************************************************)
EXTENDS Integers, Sequences, FiniteSets, TLC

VARIABLES
    \* ---- validate_notebooks.py ----
    fs,             \* the file system: filename -> file
    history,        \* results of the finished runs of the command, oldest first
    pc,             \* position of the running process
    argv,           \* the filename argument of the running process
    handle,         \* file_in: "none", "open" or "closed"
    notebook,       \* the parsed document
    format_version, \* local of is_notebook_valid
    steps,          \* the steps is_notebook_valid has taken in this run
    schemaChecks,   \* the calls of nbformat.validate made in this run
    checkResult,    \* "none", "returned" or "raised": outcome of the schema check
    raised,         \* the exception in flight
    error,          \* the exception bound by the except clause
    stdout,         \* the print calls of this run, each the text it wrote
    exitCode,       \* exit status of the process, -1 while it runs
    traceback,      \* type of the exception that reached the interpreter
    \* ---- notebooks/demo.py ----
    uploader,       \* uploader.value: the uploaded files
    demoPc,
    file_info,
    data,
    demoOut,        \* the print calls of read_uploaded_file
    demoRet,        \* the value read_uploaded_file returned
    demoFault,      \* the exception read_uploaded_file raised
    \* ---- bokeh_server.py ----
    hookPc,
    hookCalls,      \* number of calls of the load hook
    children        \* the child processes spawned so far, in spawn order

valVars  == <<fs, history, pc, argv, handle, notebook, format_version, steps,
              schemaChecks, checkResult, raised, error, stdout, exitCode, traceback>>
demoVars == <<uploader, demoPc, file_info, data, demoOut, demoRet, demoFault>>
hookVars == <<hookPc, hookCalls, children>>
vars     == <<valVars, demoVars, hookVars>>

\* ---------------------------------------------------------------- bounds
MaxRuns  == 2   \* runs of the validate command
MaxFiles == 3   \* files held by the uploader
MaxCalls == 4   \* calls of the load hook

\* ------------------------------------------------------------------ text
Str(s)   == << <<s>> >>                 \* str of a one-line value
Last(s)  == s[Len(s)]
Front(s) == SubSeq(s, 1, Len(s) - 1)

\* print(a, b): the arguments' texts separated by one space
JoinTwo(a, b) == Front(a) \o << Last(a) \o <<" ">> \o Head(b) >> \o Tail(b)

RECURSIVE PrintText(_)
PrintText(args) ==
    IF Len(args) = 1 THEN Head(args)
    ELSE JoinTwo(Head(args), PrintText(Tail(args)))

\* -------------------------------------------------------- the file system
Filenames == {"good.ipynb", "bad.ipynb"}

CellLists == {<<>>, <<"code">>, <<"heading">>, <<"bogus">>, <<"code", "bogus">>}

\* declared versions found in files; 5 has no reader and no schema
DeclaredVersions == {3, 4, 5}

NoContent == [json |-> FALSE, has_nbformat |-> FALSE, nbformat |-> 0, cells |-> <<>>]

Documents ==
    [json : {TRUE}, has_nbformat : {TRUE}, nbformat : DeclaredVersions, cells : CellLists]
    \cup {[json |-> TRUE, has_nbformat |-> FALSE, nbformat |-> 0, cells |-> <<>>]}

Files ==
    {[exists |-> FALSE, readable |-> FALSE, content |-> NoContent],
     [exists |-> TRUE,  readable |-> FALSE, content |-> NoContent],
     [exists |-> TRUE,  readable |-> TRUE,  content |-> NoContent]}
    \cup [exists : {TRUE}, readable : {TRUE}, content : Documents]

\* ------------------------------------------------------------ exceptions
NoExc == [type |-> "none", code |-> -1, text |-> Str("")]
Exc(t, msg)   == [type |-> t, code |-> -1, text |-> msg]
SystemExit(c) == [type |-> "SystemExit", code |-> c, text |-> Str("")]

\* ------------------------------------------------------- nbformat library
\* the as_version argument: a version to convert to, or the NO_CONVERT sentinel
NO_CONVERT == [convert |-> FALSE, to |-> 0]
AsVersion(v) == [convert |-> TRUE, to |-> v]

ReaderVersions == {1, 2, 3, 4}

\* cell types each version's schema allows
Schema(v) == IF v = 3 THEN {"code", "heading"} ELSE {"code", "markdown"}

ConvertCell(c, to) == IF to = 4 /\ c = "heading" THEN "markdown" ELSE c

convert(nb, to) ==
    IF nb.nbformat = to THEN nb
    ELSE [nb EXCEPT !.nbformat = to,
                    !.cells = [i \in 1..Len(nb.cells) |-> ConvertCell(nb.cells[i], to)]]

\* nbformat.read(fp, as_version): the document, or the exception it raises
nbformat_read(content, as_version) ==
    IF ~content.json
    THEN [exc |-> Exc("NotJSONError", Str("Notebook does not appear to be JSON")),
          nb |-> NoContent]
    ELSE IF content.has_nbformat /\ content.nbformat \notin ReaderVersions
    THEN [exc |-> Exc("NBFormatError", Str("Unsupported nbformat version")),
          nb |-> NoContent]
    ELSE [exc |-> NoExc,
          nb |-> IF ~as_version.convert \/ ~content.has_nbformat
                 THEN content ELSE convert(content, as_version.to)]

Violations(nb, version) ==
    {i \in 1..Len(nb.cells) : nb.cells[i] \notin Schema(version)}

FirstViolation(nb, version) ==
    CHOOSE i \in Violations(nb, version) : \A j \in Violations(nb, version) : i <= j

\* str() of the validation error: message, blank line, the failing rule
ValidationErrorText(nb, version) ==
    << <<nb.cells[FirstViolation(nb, version)],
         " is not valid under any of the given schemas">>,
       <<>>,
       <<"Failed validating 'oneOf' in notebook v", ToString(version)>> >>

\* nbformat.validate(nb, version=version): returns, or raises ValidationError
nbformat_validate(nb, version) ==
    IF Violations(nb, version) = {}
    THEN NoExc
    ELSE Exc("ValidationError", ValidationErrorText(nb, version))

\* ===================================================== validate_notebooks.py
\* open(path): the default mode "r" leaves the file as it is
FileAfterOpenTruncating(file) == [file EXCEPT !.content = NoContent]
FileAfterOpen(file) == file

\* open(path): the exception it raises, if any
OpenError(file) ==
    IF ~file.exists THEN Exc("FileNotFoundError", Str("No such file or directory"))
    ELSE IF ~file.readable THEN Exc("PermissionError", Str("Permission denied"))
    ELSE NoExc

\* the with statement closes file_in however its block is left
HandleAfterWithLeaking(exc) == IF exc.type = "none" THEN "closed" ELSE "open"
HandleAfterWith(exc) == "closed"

\* nbformat.read(file_in, nbformat.NO_CONVERT)
AsVersionLatest == AsVersion(4)
AsVersionArg == NO_CONVERT

\* notebook["nbformat"]
VersionField(nb) == nb.nbformat

\* except nbformat.ValidationError
CatchesAll(exc) == exc.type # "none"
Catches(exc) == exc.type = "ValidationError"

\* f"{filename} is valid"
ValidTextBare(filename) == Str(filename)
ValidText(filename) == << <<filename, " is valid">> >>

\* print(f"{filename}", error)
ErrorPrintArgsNoError(filename, err) == <<Str(filename)>>
ErrorPrintArgs(filename, err) == <<Str(filename), err.text>>

\* sys.exit(1) of the handler
FailureExitZero == SystemExit(0)
FailureExit == SystemExit(1)

Fresh ==
    /\ handle = "none"
    /\ notebook = NoContent
    /\ format_version = 0
    /\ steps = <<>>
    /\ schemaChecks = <<>>
    /\ checkResult = "none"
    /\ raised = NoExc
    /\ error = NoExc
    /\ stdout = <<>>
    /\ exitCode = -1
    /\ traceback = "none"

DemoIdle ==
    /\ uploader = <<>>
    /\ demoPc = "idle"
    /\ file_info = [some |-> FALSE, content |-> [xlsx |-> FALSE, rows |-> <<>>]]
    /\ data = [some |-> FALSE, rows |-> <<>>]
    /\ demoOut = <<>>
    /\ demoRet = [some |-> FALSE, rows |-> <<>>]
    /\ demoFault = "none"

HookIdle ==
    /\ hookPc = "idle"
    /\ hookCalls = 0
    /\ children = <<>>

Init ==
    /\ fs \in [Filenames -> Files]
    /\ history = <<>>
    /\ pc = "idle"
    /\ argv = "good.ipynb"
    /\ Fresh
    /\ DemoIdle
    /\ HookIdle

\* a new process runs the command on filename
Invoke(filename) ==
    /\ pc \in {"idle", "done"}
    /\ UNCHANGED <<demoVars, hookVars>>
    /\ Len(history) < MaxRuns
    /\ pc' = "open"
    /\ argv' = filename
    /\ handle' = "none"
    /\ notebook' = NoContent
    /\ format_version' = 0
    /\ steps' = <<>>
    /\ schemaChecks' = <<>>
    /\ checkResult' = "none"
    /\ raised' = NoExc
    /\ error' = NoExc
    /\ stdout' = <<>>
    /\ exitCode' = -1
    /\ traceback' = "none"
    /\ UNCHANGED <<fs, history>>

\* line 23: with open(path) as file_in
Open ==
    /\ pc = "open"
    /\ UNCHANGED <<demoVars, hookVars>>
    /\ steps' = Append(steps, "open")
    /\ IF OpenError(fs[argv]).type # "none"
       THEN /\ raised' = OpenError(fs[argv])
            /\ pc' = "except"
            /\ UNCHANGED <<fs, handle>>
       ELSE /\ handle' = "open"
            /\ fs' = [fs EXCEPT ![argv] = FileAfterOpen(@)]
            /\ pc' = "read"
            /\ UNCHANGED raised
    /\ UNCHANGED <<history, argv, notebook, format_version, schemaChecks,
                   checkResult, error, stdout, exitCode, traceback>>

\* line 24: notebook = nbformat.read(file_in, nbformat.NO_CONVERT)
Read ==
    /\ pc = "read"
    /\ UNCHANGED <<demoVars, hookVars>>
    /\ steps' = Append(steps, "parse")
    /\ LET r == nbformat_read(fs[argv].content, AsVersionArg)
       IN  /\ raised' = r.exc
           /\ notebook' = r.nb
    /\ pc' = "with_exit"
    /\ UNCHANGED <<fs, history, argv, handle, format_version, schemaChecks,
                   checkResult, error, stdout, exitCode, traceback>>

\* lines 23-24: leaving the with block, normally or by the exception
WithExit ==
    /\ pc = "with_exit"
    /\ UNCHANGED <<demoVars, hookVars>>
    /\ handle' = HandleAfterWith(raised)
    /\ pc' = IF raised.type = "none" THEN "version" ELSE "except"
    /\ UNCHANGED <<fs, history, argv, notebook, format_version, steps, schemaChecks,
                   checkResult, raised, error, stdout, exitCode, traceback>>

\* line 25: format_version = notebook["nbformat"]
ReadVersion ==
    /\ pc = "version"
    /\ UNCHANGED <<demoVars, hookVars>>
    /\ steps' = Append(steps, "version")
    /\ IF notebook.has_nbformat
       THEN /\ format_version' = VersionField(notebook)
            /\ pc' = "validate"
            /\ UNCHANGED raised
       ELSE /\ raised' = Exc("KeyError", Str("'nbformat'"))
            /\ pc' = "except"
            /\ UNCHANGED format_version
    /\ UNCHANGED <<fs, history, argv, handle, notebook, schemaChecks,
                   checkResult, error, stdout, exitCode, traceback>>

\* line 27: return nbformat.validate(notebook, version=format_version)
SchemaCheck ==
    /\ pc = "validate"
    /\ UNCHANGED <<demoVars, hookVars>>
    /\ steps' = Append(steps, "validate")
    /\ schemaChecks' = Append(schemaChecks, [version |-> format_version, nb |-> notebook])
    /\ LET e == nbformat_validate(notebook, format_version)
       IN  /\ raised' = e
           /\ checkResult' = IF e.type = "none" THEN "returned" ELSE "raised"
           /\ pc' = IF e.type = "none" THEN "print_valid" ELSE "except"
    /\ UNCHANGED <<fs, history, argv, handle, notebook, format_version,
                   error, stdout, exitCode, traceback>>

\* line 15: print(f"{filename} is valid")
PrintValid ==
    /\ pc = "print_valid"
    /\ UNCHANGED <<demoVars, hookVars>>
    /\ stdout' = Append(stdout, PrintText(<<ValidText(argv)>>))
    /\ pc' = "exit0"
    /\ UNCHANGED <<fs, history, argv, handle, notebook, format_version, steps,
                   schemaChecks, checkResult, raised, error, exitCode, traceback>>

\* line 16: sys.exit(0), raised inside the try block
SysExit0 ==
    /\ pc = "exit0"
    /\ UNCHANGED <<demoVars, hookVars>>
    /\ raised' = SystemExit(0)
    /\ pc' = "except"
    /\ UNCHANGED <<fs, history, argv, handle, notebook, format_version, steps,
                   schemaChecks, checkResult, error, stdout, exitCode, traceback>>

\* line 17: except nbformat.ValidationError as error
ExceptDispatch ==
    /\ pc = "except"
    /\ UNCHANGED <<demoVars, hookVars>>
    /\ IF Catches(raised)
       THEN /\ error' = raised
            /\ raised' = NoExc
            /\ pc' = "print_error"
       ELSE /\ pc' = "terminate"
            /\ UNCHANGED <<error, raised>>
    /\ UNCHANGED <<fs, history, argv, handle, notebook, format_version, steps,
                   schemaChecks, checkResult, stdout, exitCode, traceback>>

\* line 18: print(f"{filename}", error)
PrintError ==
    /\ pc = "print_error"
    /\ UNCHANGED <<demoVars, hookVars>>
    /\ stdout' = Append(stdout, PrintText(ErrorPrintArgs(argv, error)))
    /\ pc' = "exit1"
    /\ UNCHANGED <<fs, history, argv, handle, notebook, format_version, steps,
                   schemaChecks, checkResult, raised, error, exitCode, traceback>>

\* line 19: sys.exit(1), raised in the handler, outside the try block
SysExit1 ==
    /\ pc = "exit1"
    /\ UNCHANGED <<demoVars, hookVars>>
    /\ raised' = FailureExit
    /\ pc' = "terminate"
    /\ UNCHANGED <<fs, history, argv, handle, notebook, format_version, steps,
                   schemaChecks, checkResult, error, stdout, exitCode, traceback>>

\* line 31: the exception leaves validate(); the interpreter ends the process
\* with the status SystemExit carries, or with a traceback and status 1
Terminate ==
    /\ pc = "terminate"
    /\ UNCHANGED <<demoVars, hookVars>>
    /\ IF raised.type = "SystemExit"
       THEN /\ exitCode' = raised.code
            /\ traceback' = "none"
       ELSE /\ exitCode' = 1
            /\ traceback' = raised.type
    /\ history' = Append(history, [file |-> argv, code |-> exitCode',
                                   out |-> stdout, tb |-> traceback'])
    /\ pc' = "done"
    /\ UNCHANGED <<fs, argv, handle, notebook, format_version, steps,
                   schemaChecks, checkResult, raised, error, stdout>>

Next ==
    \/ \E filename \in Filenames : Invoke(filename)
    \/ Open
    \/ Read
    \/ WithExit
    \/ ReadVersion
    \/ SchemaCheck
    \/ PrintValid
    \/ SysExit0
    \/ ExceptDispatch
    \/ PrintError
    \/ SysExit1
    \/ Terminate

Spec == Init /\ [][Next]_vars

\* ========================================================= notebooks/demo.py
BoundedSeq(S, n) == UNION {[1..k -> S] : k \in 0..n}

\* the bytes of an uploaded file: a spreadsheet with its rows, or something else
Contents ==
    {[xlsx |-> TRUE,  rows |-> <<"r1">>],
     [xlsx |-> TRUE,  rows |-> <<"r1", "r2">>],
     [xlsx |-> FALSE, rows |-> <<>>]}

NoFileInfo == [some |-> FALSE, content |-> [xlsx |-> FALSE, rows |-> <<>>]]
NoTable    == [some |-> FALSE, rows |-> <<>>]

SingleFileMessage == Str("This example code only works for a single uploaded file")

\* pd.read_excel(io.BytesIO(content)): the table, or the exception it raises
read_excel(content) ==
    IF content.xlsx
    THEN [exc |-> "none", table |-> [some |-> TRUE, rows |-> content.rows]]
    ELSE [exc |-> "ValueError", table |-> NoTable]

ValIdle ==
    /\ fs = [f \in Filenames |-> [exists |-> FALSE, readable |-> FALSE, content |-> NoContent]]
    /\ history = <<>>
    /\ pc = "idle"
    /\ argv = "good.ipynb"
    /\ Fresh

InitDemo ==
    /\ ValIdle
    /\ HookIdle
    /\ uploader \in BoundedSeq([content : Contents], MaxFiles)
    /\ demoPc = "idle"
    /\ file_info = NoFileInfo
    /\ data = NoTable
    /\ demoOut = <<>>
    /\ demoRet = NoTable
    /\ demoFault = "none"

\* line 7: read_uploaded_file(uploader) is called
DemoCall ==
    /\ demoPc = "idle"
    /\ demoPc' = "check"
    /\ UNCHANGED <<uploader, file_info, data, demoOut, demoRet, demoFault>>
    /\ UNCHANGED <<valVars, hookVars>>

\* lines 8-9: the message is printed and the function goes on to line 10
CheckCount ==
    /\ demoPc = "check"
    /\ demoOut' = IF ~(Len(uploader) = 1)
                  THEN Append(demoOut, PrintText(<<SingleFileMessage>>))
                  ELSE demoOut
    /\ demoPc' = "index"
    /\ UNCHANGED <<uploader, file_info, data, demoRet, demoFault>>
    /\ UNCHANGED <<valVars, hookVars>>

\* line 10: file_info = uploader.value[0]
IndexFirst ==
    /\ demoPc = "index"
    /\ IF Len(uploader) = 0
       THEN /\ demoFault' = "IndexError"
            /\ demoPc' = "raised"
            /\ UNCHANGED file_info
       ELSE /\ file_info' = [some |-> TRUE, content |-> uploader[1].content]
            /\ demoPc' = "print_reading"
            /\ UNCHANGED demoFault
    /\ UNCHANGED <<uploader, data, demoOut, demoRet>>
    /\ UNCHANGED <<valVars, hookVars>>

\* line 11: print("Reading data...")
PrintReading ==
    /\ demoPc = "print_reading"
    /\ demoOut' = Append(demoOut, PrintText(<<Str("Reading data...")>>))
    /\ demoPc' = "read_excel"
    /\ UNCHANGED <<uploader, file_info, data, demoRet, demoFault>>
    /\ UNCHANGED <<valVars, hookVars>>

\* line 12: data = pd.read_excel(io.BytesIO(file_info["content"]))
ReadExcel ==
    /\ demoPc = "read_excel"
    /\ LET r == read_excel(file_info.content)
       IN  /\ data' = r.table
           /\ demoFault' = r.exc
           /\ demoPc' = IF r.exc = "none" THEN "return" ELSE "raised"
    /\ UNCHANGED <<uploader, file_info, demoOut, demoRet>>
    /\ UNCHANGED <<valVars, hookVars>>

\* line 13: return data
DemoReturn ==
    /\ demoPc = "return"
    /\ demoRet' = data
    /\ demoPc' = "returned"
    /\ UNCHANGED <<uploader, file_info, data, demoOut, demoFault>>
    /\ UNCHANGED <<valVars, hookVars>>

NextDemo ==
    \/ DemoCall
    \/ CheckCount
    \/ IndexFirst
    \/ PrintReading
    \/ ReadExcel
    \/ DemoReturn

SpecDemo == InitDemo /\ [][NextDemo]_vars

\* =========================================================== bokeh_server.py
InitHook ==
    /\ ValIdle
    /\ DemoIdle
    /\ HookIdle

\* Popen([...]): one child process is started
ChildrenAfterPopen(cs) == Append(cs, "starting")

\* Popen returns as soon as the child is started: the hook waits for nothing
HookMayReturnWhenServing(cs) == Last(cs) # "starting"
HookMayReturn(cs) == TRUE

\* the hook keeps no reference to the child and calls neither wait nor terminate
ChildrenAfterReturn(cs) == cs

\* lines 3-7: the hook is called and runs Popen
LoadExtension ==
    /\ hookPc = "idle"
    /\ hookCalls < MaxCalls
    /\ hookCalls' = hookCalls + 1
    /\ children' = ChildrenAfterPopen(children)
    /\ hookPc' = "popen_done"
    /\ UNCHANGED <<valVars, demoVars>>

\* line 7: the hook returns
HookReturn ==
    /\ hookPc = "popen_done"
    /\ HookMayReturn(children)
    /\ children' = ChildrenAfterReturn(children)
    /\ hookPc' = "idle"
    /\ UNCHANGED hookCalls
    /\ UNCHANGED <<valVars, demoVars>>

\* line 7, the child: bokeh serve starts serving
ChildServe(i) ==
    /\ children[i] = "starting"
    /\ children' = [children EXCEPT ![i] = "serving"]
    /\ UNCHANGED <<hookPc, hookCalls>>
    /\ UNCHANGED <<valVars, demoVars>>

\* line 7, the child: bokeh serve exits on its own
ChildExit(i) ==
    /\ children[i] \in {"starting", "serving"}
    /\ children' = [children EXCEPT ![i] = "exited"]
    /\ UNCHANGED <<hookPc, hookCalls>>
    /\ UNCHANGED <<valVars, demoVars>>

NextHook ==
    \/ LoadExtension
    \/ HookReturn
    \/ \E i \in 1..Len(children) : ChildServe(i)
    \/ \E i \in 1..Len(children) : ChildExit(i)

SpecHook == InitHook /\ [][NextHook]_vars

\* ==================================================================== claims
\* classes of input files, read off the file itself
Opens(file) == file.exists /\ file.readable

Parses(file) ==
    /\ Opens(file)
    /\ file.content.json
    /\ file.content.has_nbformat => file.content.nbformat \in ReaderVersions

Conforms(file) ==
    /\ Parses(file)
    /\ file.content.has_nbformat
    /\ \A i \in 1..Len(file.content.cells) :
           file.content.cells[i] \in Schema(file.content.nbformat)

FailsSchema(file) ==
    /\ Parses(file)
    /\ file.content.has_nbformat
    /\ ~Conforms(file)

OtherFailure(file) == ~Conforms(file) /\ ~FailsSchema(file)

NonEmptyText(t) == \E i \in 1..Len(t) : t[i] # <<>>

IsPrefix(s, t) == Len(s) <= Len(t) /\ SubSeq(t, 1, Len(s)) = s

Printed(text) == \E i \in 1..Len(stdout) : stdout[i] = text

\* C1: a run on a file that opens, parses and conforms to the schema of its
\* declared version ends having printed exactly "<filename> is valid", with
\* exit code 0 and no traceback.
C1_ValidFileExitsZero ==
    (pc = "done" /\ Conforms(fs[argv])) =>
        /\ stdout = << << <<argv, " is valid">> >> >>
        /\ exitCode = 0
        /\ traceback = "none"

C1_Witness ==
    /\ pc = "done"
    /\ Conforms(fs[argv])
    /\ fs[argv].content.cells # <<>>
    /\ exitCode = 0

\* C2: a run on a file that parses but fails the schema check of its declared
\* version catches the validation error, prints the filename, a space and the
\* non-empty text of the error, never prints "<filename> is valid", and ends
\* with exit code 1.
C2_InvalidFileExitsOne ==
    FailsSchema(fs[argv]) =>
        /\ ~Printed(<< <<argv, " is valid">> >>)
        /\ pc = "done" =>
              /\ exitCode = 1
              /\ traceback = "none"
              /\ error.type = "ValidationError"
              /\ NonEmptyText(error.text)
              /\ stdout = << JoinTwo(<< <<argv>> >>, error.text) >>

C2_Witness ==
    /\ pc = "done"
    /\ FailsSchema(fs[argv])
    /\ exitCode = 1
    /\ Len(stdout) = 1

C4_HandleReleased ==
    /\ handle = "open" => pc \in {"read", "with_exit"}
    /\ pc \in {"version", "validate"} => handle = "closed"
    /\ schemaChecks # <<>> => handle = "closed"
    /\ (pc \in {"except", "terminate", "done"} /\ "parse" \in {steps[i] : i \in 1..Len(steps)})
           => handle = "closed"

C4_Witness ==
    /\ pc = "done"
    /\ traceback = "NotJSONError"
    /\ handle = "closed"

\* C5: all runs on the same file end with the same exit code, the same
\* output and the same traceback, and no step of a run changes a file.
C5_Idempotent ==
    /\ [](\A i, j \in 1..Len(history) :
              history[i].file = history[j].file =>
                  /\ history[i].code = history[j].code
                  /\ history[i].out = history[j].out
                  /\ history[i].tb = history[j].tb)
    /\ [][fs' = fs]_vars

C5_Witness ==
    /\ Len(history) = 2
    /\ history[1].file = history[2].file
    /\ history[1].out # <<>>
    /\ history[2].out = history[1].out

\* C6 as stated: on the success path and on the handled failure path the
\* output is one print call whose content is a single line.
C6_Original ==
    (pc = "done" /\ traceback = "none") =>
        /\ Len(stdout) = 1
        /\ Len(stdout[1]) = 1

\* C6 as amended: on the success path and on the handled failure path there
\* is exactly one print call; the success print is the single line
\* "<filename> is valid", the failure print is the filename, a space and the
\* text of the error and has as many lines as that text; no run makes both.
C6_OnePrintCall ==
    /\ Len(stdout) <= 1
    /\ (pc = "done" /\ traceback = "none") =>
          /\ Len(stdout) = 1
          /\ exitCode = 0 => stdout[1] = << <<argv, " is valid">> >>
          /\ exitCode = 1 =>
                /\ stdout[1] = JoinTwo(<< <<argv>> >>, error.text)
                /\ Len(stdout[1]) = Len(error.text)

C6_Witness ==
    /\ pc = "done"
    /\ traceback = "none"
    /\ exitCode = 1
    /\ Len(stdout) = 1
    /\ Len(stdout[1]) > 1

\* C7: is_notebook_valid takes its steps in the order open, parse, read
\* version, schema check; the schema check runs at most once, only on a
\* parsed document, and it is given the unconverted document of the file and
\* the version that document declares.
C7_LinearSequence ==
    /\ IsPrefix(steps, <<"open", "parse", "version", "validate">>)
    /\ Len(schemaChecks) <= 1
    /\ schemaChecks # <<>> =>
          /\ Parses(fs[argv])
          /\ fs[argv].content.has_nbformat
          /\ schemaChecks[1].nb = fs[argv].content
          /\ schemaChecks[1].version = fs[argv].content.nbformat

C7_Witness ==
    /\ pc = "done"
    /\ Len(schemaChecks) = 1
    /\ schemaChecks[1].version = 3
    /\ steps = <<"open", "parse", "version", "validate">>

\* C8: the handler is entered only by a validation error; a run ends with
\* exit code 0 exactly when its schema check returned normally.
C8_ExitZeroIffCheckReturned ==
    /\ error.type \in {"none", "ValidationError"}
    /\ pc \in {"print_error", "exit1"} => checkResult = "raised"
    /\ pc = "done" => (exitCode = 0 <=> checkResult = "returned")

C8_Witness ==
    /\ pc = "terminate"
    /\ raised.type = "SystemExit"
    /\ raised.code = 0
    /\ checkResult = "returned"

\* C9 as stated: data is read and returned only when exactly one file was
\* uploaded; with zero or several files the message is printed and no file's
\* content is read and no table is returned.
C9_OnlySingleUploadIsRead ==
    (Len(uploader) # 1 /\ demoPc \notin {"idle", "check"}) =>
        /\ demoOut # <<>>
        /\ demoOut[1] = SingleFileMessage
        /\ ~file_info.some
        /\ ~data.some
        /\ ~demoRet.some

====
